---- MODULE Spec2Model ----
(***************************************************************************)
(* A model of git_red.py: the red-commit filter.  Text is modelled as a    *)
(* sequence of one-character strings, so that strip, split, splitlines,    *)
(* substring search and int() are computed as Python computes them.  The   *)
(* float arithmetic of line 43 is modelled bit by bit (IEEE-754 binary64,  *)
(* round to nearest, ties to even).                                        *)
(***************************************************************************)
EXTENDS Integers, Sequences, FiniteSets, TLC

\* ------------------------------------------------------------------ bounds
\* The longest history window the model explores.
MaxCommits == 2
\* The length of a commit hash in the model (git's is 40; what matters to the
\* program is that it is longer than the 8 characters it displays).
HashLen == 10

\* --------------------------------------------------------- Python's strings
\* The whitespace str.strip() and str.split() remove, within the alphabet.
Whitespace == {" ", "\t", "\n"}

DigitChars == <<"0", "1", "2", "3", "4", "5", "6", "7", "8", "9">>

RECURSIVE lstrip(_)
lstrip(s) == IF s # <<>> /\ Head(s) \in Whitespace THEN lstrip(Tail(s)) ELSE s

RECURSIVE rstrip(_)
rstrip(s) ==
    IF s # <<>> /\ s[Len(s)] \in Whitespace
    THEN rstrip(SubSeq(s, 1, Len(s) - 1))
    ELSE s

\* str.strip()
strip(s) == rstrip(lstrip(s))

\* str.find(c) for a one-character c, 1-based; 0 when absent.
find(s, c) ==
    IF \E i \in 1..Len(s) : s[i] = c
    THEN CHOOSE i \in 1..Len(s) : s[i] = c /\ \A j \in 1..(i - 1) : s[j] # c
    ELSE 0

\* str.split(sep) for a one-character sep: every piece, the empty ones too.
RECURSIVE split(_, _)
split(s, sep) ==
    LET i == find(s, sep)
    IN  IF i = 0
        THEN <<s>>
        ELSE <<SubSeq(s, 1, i - 1)>> \o split(SubSeq(s, i + 1, Len(s)), sep)

\* str.split(sep, 1): at most one split.
split1(s, sep) ==
    LET i == find(s, sep)
    IN  IF i = 0
        THEN <<s>>
        ELSE <<SubSeq(s, 1, i - 1), SubSeq(s, i + 1, Len(s))>>

\* The first whitespace-free run of a string that starts with none.
RECURSIVE TakeWord(_)
TakeWord(s) ==
    IF s = <<>> \/ Head(s) \in Whitespace
    THEN <<>>
    ELSE <<Head(s)>> \o TakeWord(Tail(s))

\* str.split() without arguments: the whitespace-delimited tokens.
RECURSIVE split_ws(_)
split_ws(s) ==
    LET t == lstrip(s)
    IN  IF t = <<>>
        THEN <<>>
        ELSE LET w == TakeWord(t)
             IN  <<w>> \o split_ws(SubSeq(t, Len(w) + 1, Len(t)))

\* str.splitlines(): the lines, without a last empty one.
splitlines(text) ==
    LET parts == split(text, "\n")
    IN  IF parts[Len(parts)] = <<>>
        THEN SubSeq(parts, 1, Len(parts) - 1)
        ELSE parts

\* sub in x
contains(x, sub) ==
    \E i \in 1..(Len(x) - Len(sub) + 1) : SubSeq(x, i, i + Len(sub) - 1) = sub

\* x.startswith(prefix)
startswith(x, prefix) ==
    Len(x) >= Len(prefix) /\ SubSeq(x, 1, Len(prefix)) = prefix

\* s[:n]
prefix_of(s, n) == SubSeq(s, 1, IF Len(s) < n THEN Len(s) ELSE n)

IsDigit(c) == \E d \in 1..10 : DigitChars[d] = c

DigitValue(c) == (CHOOSE d \in 1..10 : DigitChars[d] = c) - 1

RECURSIVE DigitsValue(_)
DigitsValue(s) ==
    IF s = <<>>
    THEN 0
    ELSE 10 * DigitsValue(SubSeq(s, 1, Len(s) - 1)) + DigitValue(s[Len(s)])

\* Whether int(tok) succeeds: an optional sign and at least one digit.  (A
\* token has no whitespace; the alphabet has no underscore.)
int_ok(tok) ==
    LET body == IF tok # <<>> /\ Head(tok) \in {"+", "-"} THEN Tail(tok) ELSE tok
    IN  body # <<>> /\ \A i \in 1..Len(body) : IsDigit(body[i])

\* int(tok), where it succeeds.
int_of(tok) ==
    IF Head(tok) = "-" THEN 0 - DigitsValue(Tail(tok))
    ELSE IF Head(tok) = "+" THEN DigitsValue(Tail(tok))
    ELSE DigitsValue(tok)

\* str(n) of a non-negative integer.
RECURSIVE NatStr(_)
NatStr(n) ==
    IF n < 10
    THEN <<DigitChars[n + 1]>>
    ELSE NatStr(n \div 10) \o <<DigitChars[(n % 10) + 1]>>

\* str(n)
str(n) == IF n < 0 THEN <<"-">> \o NatStr(0 - n) ELSE NatStr(n)

\* f"{s:>w}": right-aligned in a field of width w, never truncated.
RECURSIVE rjust(_, _)
rjust(s, w) == IF Len(s) >= w THEN s ELSE rjust(<<" ">> \o s, w)

RECURSIVE sum(_)
sum(xs) == IF xs = <<>> THEN 0 ELSE Head(xs) + sum(Tail(xs))

RECURSIVE join(_, _)
join(lines, sep) ==
    IF lines = <<>> THEN <<>>
    ELSE IF Len(lines) = 1 THEN lines[1]
    ELSE lines[1] \o sep \o join(Tail(lines), sep)

\* ------------------------------------------------ Python's float (binary64)
\* The precision of a Python float: 53 significant bits.
MantissaBits == 53

\* A float is [neg, bits, e]: bits is the significand, most significant bit
\* first, MantissaBits long and starting with 1, and the magnitude is
\* (bits / 2^(MantissaBits-1)) * 2^e.  Zero has no bits.
FloatZero == [neg |-> FALSE, bits |-> <<>>, e |-> 0]

\* n / m with n or m doubled until the quotient lies in [1, 2).
RECURSIVE Normalise(_, _, _)
Normalise(n, m, e) ==
    IF n < m THEN Normalise(2 * n, m, e - 1)
    ELSE IF n >= 2 * m THEN Normalise(n, 2 * m, e + 1)
    ELSE [n |-> n, m |-> m, e |-> e]

\* 2^i mod m, by squaring.
RECURSIVE Pow2Mod(_, _)
Pow2Mod(i, m) ==
    IF i = 0
    THEN 1 % m
    ELSE LET h == Pow2Mod(i \div 2, m)
         IN  (((h * h) % m) * (IF i % 2 = 1 THEN 2 ELSE 1)) % m

\* (n * 2^i) mod m: what is left of n / m after i bits of its fraction.
DivRem(n, m, i) == ((n % m) * Pow2Mod(i, m)) % m

\* The first k bits of the binary expansion of n / m, for m <= n < 2m.
DivBits(n, m, k) ==
    [i \in 1..k |->
        IF i = 1 THEN 1
        ELSE IF 2 * DivRem(n, m, i - 2) >= m THEN 1 ELSE 0]

\* bits + 1; one bit longer when every bit was 1.
IncBits(b) ==
    IF \A i \in 1..Len(b) : b[i] = 1
    THEN [i \in 1..(Len(b) + 1) |-> IF i = 1 THEN 1 ELSE 0]
    ELSE LET k == CHOOSE k \in 1..Len(b) :
                      b[k] = 0 /\ \A j \in (k + 1)..Len(b) : b[j] = 1
         IN  [i \in 1..Len(b) |-> IF i < k THEN b[i] ELSE IF i = k THEN 1 ELSE 0]

\* The significand rounded up (or kept), renormalised.
RoundBits(neg, bits, e, up) ==
    IF ~up
    THEN [neg |-> neg, bits |-> bits, e |-> e]
    ELSE LET r == IncBits(bits)
         IN  IF Len(r) > Len(bits)
             THEN [neg |-> neg, bits |-> SubSeq(r, 1, Len(bits)), e |-> e + 1]
             ELSE [neg |-> neg, bits |-> r, e |-> e]

\* a / b for integers a and b > 0: the quotient, correctly rounded (to
\* nearest, ties to even).
\* (The remainders are squared on the way, so b stays below 2^15 here; the
\* line counts of the model are far smaller.)
float_div(a, b) ==
    IF a = 0
    THEN FloatZero
    ELSE LET mag == IF a < 0 THEN 0 - a ELSE a
             nm == Normalise(mag, b, 0)
             bits == DivBits(nm.n, nm.m, MantissaBits)
             rem == DivRem(nm.n, nm.m, MantissaBits - 1)
             up == \/ 2 * rem > nm.m
                   \/ 2 * rem = nm.m /\ bits[MantissaBits] = 1
         IN  RoundBits(a < 0, bits, nm.e, up)

RECURSIVE BitsValue(_)
BitsValue(b) ==
    IF b = <<>> THEN 0 ELSE 2 * BitsValue(SubSeq(b, 1, Len(b) - 1)) + b[Len(b)]

\* The significand is multiplied LimbBits bits at a time, so that every
\* intermediate product fits a 32-bit integer.
LimbBits == 2 * 8

LimbBase == 2 ^ LimbBits

\* The LimbBits-bit pieces of a bit string, least significant piece first.
Limbs(bits) ==
    LET n == (Len(bits) + LimbBits - 1) \div LimbBits
    IN  [j \in 1..n |->
            LET hi == Len(bits) - (j - 1) * LimbBits
                lo == IF hi - LimbBits + 1 < 1 THEN 1 ELSE hi - LimbBits + 1
            IN  BitsValue(SubSeq(bits, lo, hi))]

\* limbs * c + carry, least significant limb first.
RECURSIVE MulLimbs(_, _, _)
MulLimbs(ls, c, carry) ==
    IF ls = <<>>
    THEN <<carry>>
    ELSE LET v == Head(ls) * c + carry
         IN  <<v % LimbBase>> \o MulLimbs(Tail(ls), c, v \div LimbBase)

\* The bits of limbs (least significant limb first), without leading zeros.
LimbsToBits(ls) ==
    LET all == [i \in 1..(Len(ls) * LimbBits) |->
                   LET j == Len(ls) - ((i - 1) \div LimbBits)
                       k == LimbBits - 1 - ((i - 1) % LimbBits)
                   IN  (ls[j] \div (2 ^ k)) % 2]
    IN  IF \A i \in 1..Len(all) : all[i] = 0
        THEN <<>>
        ELSE LET f == CHOOSE f \in 1..Len(all) :
                          all[f] = 1 /\ \A j \in 1..(f - 1) : all[j] = 0
             IN  SubSeq(all, f, Len(all))

\* bits * c in binary, for a small natural c.
MulBits(b, c) == LimbsToBits(MulLimbs(Limbs(b), c, 0))

\* x * c for a float x and a small natural c >= 1: the exact product,
\* correctly rounded.
float_mul(x, c) ==
    IF x.bits = <<>>
    THEN x
    ELSE LET p == MulBits(x.bits, c)
             kept == SubSeq(p, 1, MantissaBits)
             dropped == SubSeq(p, MantissaBits + 1, Len(p))
             up == /\ dropped # <<>>
                   /\ dropped[1] = 1
                   /\ \/ \E i \in 2..Len(dropped) : dropped[i] = 1
                      \/ kept[MantissaBits] = 1
         IN  RoundBits(x.neg, kept, x.e + (Len(p) - MantissaBits), up)

\* The integer part of a float's magnitude.
float_floor(x) ==
    IF x.bits = <<>> \/ x.e < 0 THEN 0 ELSE BitsValue(prefix_of(x.bits, x.e + 1))

\* The first bit of the fraction of a float's magnitude.
float_half(x) ==
    IF x.bits # <<>> /\ x.e >= -1 /\ x.e + 2 <= MantissaBits
    THEN x.bits[x.e + 2]
    ELSE 0

\* Whether the fraction has a bit set after its first.
float_sticky(x) ==
    /\ x.bits # <<>>
    /\ \/ x.e < -1
       \/ \E i \in (x.e + 3)..MantissaBits : x.bits[i] = 1

\* x >= p for a float x and an integer p (Python compares them exactly).
float_ge(x, p) ==
    IF ~x.neg
    THEN float_floor(x) >= p
    ELSE \/ float_floor(x) < 0 - p
         \/ float_floor(x) = 0 - p /\ float_half(x) = 0 /\ ~float_sticky(x)

\* f"{x:.0f}": x rounded to an integer, ties to even, with its sign.
format_0f(x) ==
    LET ip == float_floor(x)
        up == float_half(x) = 1 /\ (float_sticky(x) \/ ip % 2 = 1)
    IN  (IF x.neg THEN <<"-">> ELSE <<>>) \o NatStr(IF up THEN ip + 1 ELSE ip)


\* ---------------------------------------------------------- the repository
\* What the program reads through its three git commands is the world of a
\* run: the history window (repo, newest first) and, per call, the outcome
\* git produces.

HexChars ==
    <<"0", "1", "2", "3", "4", "5", "6", "7", "8", "9", "a", "b", "c", "d", "e", "f">>

\* The full hash of the i-th commit of the window (%H).
Hash(i) == [k \in 1..HashLen |-> HexChars[((5 * i + 3 * k) % 16) + 1]]

\* The subjects a commit of the window may carry (%s): an ordinary one, a
\* merge commit's, and the empty subject of a commit made with
\* --allow-empty-message.
SubjectFix == <<"f", "i", "x", " ", "t", "y", "p", "o">>
SubjectMerge == <<"M", "e", "r", "g", "e", " ", "b", "r", "a", "n", "c", "h", " ",
      "'", "d", "e", "v", "'">>
SubjectEmpty == <<>>
Subjects == {SubjectFix, SubjectMerge, SubjectEmpty}

\* The history windows of up to MaxCommits commits, newest first.
Repos ==
    UNION {[1..n -> Subjects] : n \in 0..MaxCommits}

\* The commits of a window: hash and subject.
WorldCommits(subjects) ==
    [i \in 1..Len(subjects) |-> [hash |-> Hash(i), subject |-> subjects[i]]]

\* What subprocess.check_output(..., text=True) does with a git command: it
\* returns the decoded output (exc is "none"), or it raises
\*   CalledProcessError  when git exits with a non-zero status,
\*   FileNotFoundError   when there is no git executable to start,
\*   OSError             when the process cannot be started for another reason
\*                       (a failed fork; FileNotFoundError is an OSError),
\*   UnicodeDecodeError  when git exits with 0 and its output is not UTF-8.

\* The outcomes of git log the model draws from.
LogOutcomes == {"ok", "fatal", "no_git", "undecodable"}

\* The outcomes git log can have on a window: only a window that has a commit
\* has a subject that cannot be decoded.
LogOutcomesOf(world) ==
    IF world = <<>> THEN LogOutcomes \ {"undecodable"} ELSE LogOutcomes

\* git log --since=... --pretty=format:%H%x09%s: one line per commit, hash,
\* TAB, subject, the lines separated (not terminated) by newlines.  fatal: not
\* a repository, a malformed date; undecodable: a subject of the window holds
\* bytes that are not UTF-8.
git_log(world, outcome) ==
    CASE outcome = "fatal" -> [exc |-> "CalledProcessError", out |-> <<>>]
      [] outcome = "no_git" -> [exc |-> "FileNotFoundError", out |-> <<>>]
      [] outcome = "undecodable" -> [exc |-> "UnicodeDecodeError", out |-> <<>>]
      [] outcome = "ok" ->
            [exc |-> "none",
             out |-> join([i \in 1..Len(world) |->
                              world[i].hash \o <<"\t">> \o world[i].subject],
                          <<"\n">>)]

\* The summary line git prints under a --stat listing:
\* " F file(s) changed[, I insertion(s)(+)][, D deletion(s)(-)]"; a count of 1
\* is singular, and a part whose count is 0 is left out unless both are 0.
StatSummary(F, I, D) ==
    <<" ">> \o str(F) \o (IF F = 1 THEN <<" ", "f", "i", "l", "e", " ", "c", "h", "a",
          "n", "g", "e", "d">> ELSE <<" ", "f", "i", "l", "e", "s", " ", "c", "h",
          "a", "n", "g", "e", "d">>)
    \o (IF I # 0 \/ D = 0
        THEN <<",", " ">> \o str(I) \o (IF I = 1 THEN <<" ", "i", "n", "s", "e", "r",
              "t", "i", "o", "n", "(", "+", ")">> ELSE <<" ", "i", "n", "s", "e", "r",
              "t", "i", "o", "n", "s", "(", "+", ")">>)
        ELSE <<>>)
    \o (IF D # 0 \/ I = 0
        THEN <<",", " ">> \o str(D) \o (IF D = 1 THEN <<" ", "d", "e", "l", "e", "t",
              "i", "o", "n", "(", "-", ")">> ELSE <<" ", "d", "e", "l", "e", "t", "i",
              "o", "n", "s", "(", "-", ")">>)
        ELSE <<>>)

\* The outcomes of git show --stat the model draws from.  quoted: summary
\* lines the commit message quotes (as a squash commit's does); prose: other
\* lines of the message; F, I, D: the files changed, lines inserted and lines
\* deleted by the commit itself; undecodable: the commit's message holds bytes
\* that are not UTF-8; os_error: the git process cannot be started.
ShowCases ==
    {"fatal", "undecodable", "os_error", "plural", "one_insertion",
     "one_deletion", "deletions_only", "quoted", "prose"}

ShowParams(c) ==
    CASE c = "fatal" ->
            [exc |-> "CalledProcessError", quoted |-> <<>>, prose |-> <<>>,
             F |-> 0, I |-> 0, D |-> 0]
      [] c = "undecodable" ->
            [exc |-> "UnicodeDecodeError", quoted |-> <<>>, prose |-> <<>>,
             F |-> 0, I |-> 0, D |-> 0]
      [] c = "os_error" ->
            [exc |-> "OSError", quoted |-> <<>>, prose |-> <<>>,
             F |-> 0, I |-> 0, D |-> 0]
      [] c = "plural" ->
            [exc |-> "none", quoted |-> <<>>, prose |-> <<>>, F |-> 3, I |-> 10, D |-> 2]
      [] c = "one_insertion" ->
            [exc |-> "none", quoted |-> <<>>, prose |-> <<>>, F |-> 1, I |-> 1, D |-> 0]
      [] c = "one_deletion" ->
            [exc |-> "none", quoted |-> <<>>, prose |-> <<>>, F |-> 1, I |-> 0, D |-> 1]
      [] c = "deletions_only" ->
            [exc |-> "none", quoted |-> <<>>, prose |-> <<>>, F |-> 10, I |-> 0, D |-> 98]
      [] c = "quoted" ->
            [exc |-> "none", quoted |-> <<[F |-> 21, I |-> 300, D |-> 0]>>,
             prose |-> <<>>, F |-> 29, I |-> 0, D |-> 400]
      [] c = "prose" ->
            [exc |-> "none", quoted |-> <<>>,
             prose |-> <<<<"F", "i", "x", " ", "i", "n", "s", "e", "r", "t", "i", "o",
                   "n", "s", "(", "+", ")", " ", "c", "o", "u", "n",
                   "t">>>>, F |-> 3, I |-> 10, D |-> 2]

\* git show --stat <commit_hash>: the header, the message indented by four
\* spaces, the per-file listing and the summary line; fatal for an unknown
\* revision or a failing command.
git_show_stat(world, commit_hash, c) ==
    LET p == ShowParams(c)
        known == {i \in 1..Len(world) : world[i].hash = commit_hash}
    IN  IF p.exc # "none"
        THEN [exc |-> p.exc, out |-> <<>>]
        ELSE IF known = {}
        THEN [exc |-> "CalledProcessError", out |-> <<>>]
        ELSE LET commit == world[CHOOSE i \in known : TRUE]
                 indent == <<" ", " ", " ", " ">>
                 message ==
                     <<indent \o commit.subject>>
                     \o (IF p.quoted = <<>> /\ p.prose = <<>> THEN <<>> ELSE <<<<>>>>)
                     \o [k \in 1..Len(p.prose) |-> indent \o p.prose[k]]
                     \o [k \in 1..Len(p.quoted) |->
                            indent \o StatSummary(p.quoted[k].F, p.quoted[k].I, p.quoted[k].D)]
                 lines ==
                     <<<<"c", "o", "m", "m", "i", "t", " ">> \o commit.hash,
                       <<"A", "u", "t", "h", "o", "r", ":", " ", "A", "n", "n", " ",
                             "L", "e", "e", " ", "<", "a", "n", "n", "@", "e", "x",
                             "a", "m", "p", "l", "e", ".", "o", "r", "g", ">">>,
                       <<>>>>
                     \o message
                     \o <<<<>>,
                          <<" ", "a", ".", "p", "y", " ", "|",
                                " ">> \o str(p.I + p.D) \o <<" ", "+", "-">>,
                          StatSummary(p.F, p.I, p.D)>>
             IN  [exc |-> "none", out |-> join(lines, <<"\n">>) \o <<"\n">>]

\* The outcomes of the author lookup the model draws from.  undecodable: the
\* author's name holds bytes that are not UTF-8, whatever git show --stat
\* printed for the commit (a .mailmap gives it a clean name to print);
\* os_error: the git process cannot be started.
AuthorOutcomes == {"ok", "fatal", "undecodable", "os_error"}

\* git log -1 --pretty=format:%an <commit_hash>
git_author(world, commit_hash, outcome) ==
    IF outcome = "undecodable"
    THEN [exc |-> "UnicodeDecodeError", out |-> <<>>]
    ELSE IF outcome = "os_error"
    THEN [exc |-> "OSError", out |-> <<>>]
    ELSE IF outcome = "fatal" \/ \A i \in 1..Len(world) : world[i].hash # commit_hash
    THEN [exc |-> "CalledProcessError", out |-> <<>>]
    ELSE [exc |-> "none", out |-> <<"A", "n", "n", " ", "L", "e", "e">>]

\* The command-line arguments the model draws from: (--min-lines, --min-pct).
\* The defaults; no threshold at all; thresholds a commit meets with equality.
DefaultMinLines == 10
DefaultMinPct == 95
Thresholds == {<<DefaultMinLines, DefaultMinPct>>, <<0, 0>>, <<6, 50>>, <<50, 58>>}

\* ------------------------------------------------------------- the program
\* A printed line is the sequence of the pieces of its f-string: the literal
\* pieces as strings, the formatted values as character sequences.  An
\* exception's message is abstracted to the exception's type.

\* get_git_log's list comprehension over the stripped output.
parse_log(log_output) ==
    IF log_output # <<>>
    THEN LET lines == SelectSeq(split(log_output, "\n"), LAMBDA line : line # <<>>)
         IN  [i \in 1..Len(lines) |-> split1(lines[i], "\t")]
    ELSE <<>>

\* get_git_log's except branch.
git_log_error(e) ==
    [ret |-> <<>>, printed |-> <<<<"Error retrieving git log: ", e>>>>, raised |-> "none"]

\* get_git_log, given what the subprocess produced: what it returns and
\* prints, or the exception that leaves it.  Its except clause names
\* subprocess.CalledProcessError only; any other exception of check_output
\* propagates to the caller.
get_git_log(result) ==
    IF result.exc = "CalledProcessError"
    THEN git_log_error(result.exc)
    ELSE IF result.exc # "none"
    THEN [ret |-> <<>>, printed |-> <<>>, raised |-> result.exc]
    ELSE [ret |-> parse_log(strip(result.out)), printed |-> <<>>, raised |-> "none"]

\* The tokens get_commit_diff_stats looks for in a line.
InsertionsToken == <<"i", "n", "s", "e", "r", "t", "i", "o", "n", "s", "(">>
DeletionsToken == <<"d", "e", "l", "e", "t", "i", "o", "n", "s", "(">>

\* The lines of diff_stat that contain the token.
matching_lines(diff_stat, token) ==
    SelectSeq(splitlines(diff_stat), LAMBDA x : contains(x, token))

\* Whether sum(int(x.split()[0]) ...) over the lines raises ValueError.
count_raises(lines) ==
    \E i \in 1..Len(lines) : ~int_ok(split_ws(lines[i])[1])

\* sum(int(x.split()[0]) for x in diff_stat.splitlines() if token in x)
count_sum(lines) ==
    sum([i \in 1..Len(lines) |-> int_of(split_ws(lines[i])[1])])

\* get_commit_diff_stats's except branch.
diff_stats_error(commit_hash, e) ==
    [ret |-> <<0, 0>>,
     printed |-> <<<<"Error retrieving diff stats for commit ",
                     prefix_of(commit_hash, 8), ": ", e>>>>,
     raised |-> "none"]

\* The exceptions get_commit_diff_stats's except clause catches:
\* subprocess.CalledProcessError, and ValueError with its subclass
\* UnicodeDecodeError.
DiffStatsCaught == {"CalledProcessError", "ValueError", "UnicodeDecodeError"}

\* get_commit_diff_stats, given what the subprocess produced: what it returns
\* and prints, or the exception that leaves it: one its except clause does
\* not name.
get_commit_diff_stats(commit_hash, result) ==
    IF result.exc \in DiffStatsCaught
    THEN diff_stats_error(commit_hash, result.exc)
    ELSE IF result.exc # "none"
    THEN [ret |-> <<0, 0>>, printed |-> <<>>, raised |-> result.exc]
    ELSE LET ins == matching_lines(result.out, InsertionsToken)
             del == matching_lines(result.out, DeletionsToken)
         IN  IF count_raises(ins) \/ count_raises(del)
             THEN diff_stats_error(commit_hash, "ValueError")
             ELSE [ret |-> <<count_sum(ins), count_sum(del)>>, printed |-> <<>>,
                   raised |-> "none"]

\* commit_subject.startswith("Merge branch")
MergePrefix == <<"M", "e", "r", "g", "e", " ", "b", "r", "a", "n", "c", "h">>

\* A merge test that compares the whole subject with the prefix.
is_merge_commit_exact(commit_subject) == commit_subject = MergePrefix

is_merge_commit(commit_subject) == startswith(commit_subject, MergePrefix)

\* percent_deleted = (deleted / total_lines) * 100 if total_lines > 0 else 0
percent_of(deleted_, total_lines) ==
    IF total_lines > 0
    THEN float_mul(float_div(deleted_, total_lines), 100)
    ELSE FloatZero

\* The two nested conditions of find_commits.
is_red(added_, deleted_, lines_, pct_) ==
    LET total_lines == added_ + deleted_
    IN  /\ total_lines >= lines_
        /\ float_ge(percent_of(deleted_, total_lines), pct_)

\* The line find_commits prints for a red commit.
commit_line(commit_hash, added_, deleted_, commit_author) ==
    LET add_str == <<"+">> \o str(added_)
        del_str == <<"-">> \o str(deleted_)
    IN  <<prefix_of(commit_hash, 8), " | ",
          rjust(add_str, 5), ", ", rjust(del_str, 6), " | ",
          rjust(format_0f(percent_of(deleted_, added_ + deleted_)), 3), "% | ",
          commit_author>>

\* A print that puts the line before what was printed.
print_first(out, line) == <<line>> \o out

\* print(): the line goes to the end of standard output.
print(out, line) == Append(out, line)


\* --since: the window's lower bound, printed in the banner.
Since == <<"2", "0", "2", "4", "-", "0", "1", "-", "0", "1">>

\* ------------------------------------------------------------------- state
VARIABLES
    pc,         \* where the run is: "main", "find_commits", "loop", "done", "raised"
    uncaught,   \* the exception that ended the run with a traceback, or "none"
    min_lines,  \* args.min_lines
    min_pct,    \* args.min_pct
    repo,       \* the subjects of the history window, newest first (the world)
    commits,    \* find_commits' commits, once get_git_log has returned
    idx,        \* the for loop's position: the index in commits of the next record
    added,      \* find_commits' added (0 until first assigned)
    deleted,    \* find_commits' deleted (0 until first assigned)
    stdout,     \* the lines printed so far
    calls       \* the git commands run so far: [cmd, hash, outcome]

vars ==
    <<pc, uncaught, min_lines, min_pct, repo, commits, idx, added, deleted, stdout, calls>>

World == WorldCommits(repo)

Init ==
    /\ pc = "main"
    /\ uncaught = "none"
    /\ \E t \in Thresholds : min_lines = t[1] /\ min_pct = t[2]
    /\ repo \in Repos
    /\ commits = <<>>
    /\ idx = 0
    /\ added = 0
    /\ deleted = 0
    /\ stdout = <<>>
    /\ calls = <<>>

\* main: the banner, then find_commits.
Main ==
    /\ pc = "main"
    /\ stdout' = print(stdout, <<"Searching for commits since ", Since, "...">>)
    /\ pc' = "find_commits"
    /\ UNCHANGED <<uncaught, min_lines, min_pct, repo, commits, idx, added, deleted, calls>>

LogCall(outcome) == [cmd |-> "log", hash |-> <<>>, outcome |-> outcome]

\* find_commits, line 35: commits = get_git_log(since_date), when get_git_log
\* returns: git log succeeded, or its CalledProcessError was caught.
GetGitLog ==
    /\ pc = "find_commits"
    /\ \E outcome \in LogOutcomesOf(World) :
          LET r == get_git_log(git_log(World, outcome))
          IN  /\ r.raised = "none"
              /\ commits' = r.ret
              /\ stdout' = stdout \o r.printed
              /\ calls' = Append(calls, LogCall(outcome))
    /\ idx' = 1
    /\ pc' = "loop"
    /\ UNCHANGED <<uncaught, min_lines, min_pct, repo, added, deleted>>

\* find_commits, line 35, when an exception leaves get_git_log: find_commits
\* and main do not catch it either; nothing is assigned and nothing printed.
GetGitLogRaises ==
    /\ pc = "find_commits"
    /\ \E outcome \in LogOutcomesOf(World) :
          LET r == get_git_log(git_log(World, outcome))
          IN  /\ r.raised # "none"
              /\ uncaught' = r.raised
              /\ calls' = Append(calls, LogCall(outcome))
    /\ pc' = "raised"
    /\ UNCHANGED <<min_lines, min_pct, repo, commits, idx, added, deleted, stdout>>

\* The record the loop is at.
AtRecord == pc = "loop" /\ idx <= Len(commits)

\* for commit_hash, commit_subject in commits: a record that is no pair cannot
\* be unpacked; the ValueError is caught nowhere.
IterUnpackError ==
    /\ AtRecord
    /\ Len(commits[idx]) # 2
    /\ pc' = "raised"
    /\ uncaught' = "ValueError"
    /\ UNCHANGED <<min_lines, min_pct, repo, commits, idx, added, deleted, stdout, calls>>

\* A merge commit: continue.
IterSkipMerge ==
    /\ AtRecord
    /\ Len(commits[idx]) = 2
    /\ is_merge_commit(commits[idx][2])
    /\ idx' = idx + 1
    /\ UNCHANGED <<pc, uncaught, min_lines, min_pct, repo, commits, added, deleted, stdout, calls>>

\* The record is a pair and no merge commit: its stats are fetched.
AtCandidate ==
    /\ AtRecord
    /\ Len(commits[idx]) = 2
    /\ ~is_merge_commit(commits[idx][2])

\* get_commit_diff_stats(Hash(i)) when the i-th commit has subject s and git
\* show --stat produces outcome c, computed once for every such run of it.
DiffStatsOf ==
    [i \in 1..MaxCommits, s \in Subjects, c \in ShowCases |->
        LET commit == [hash |-> Hash(i), subject |-> s]
        IN  get_commit_diff_stats(Hash(i), git_show_stat(<<commit>>, Hash(i), c))]

\* get_commit_diff_stats(commit_hash) when git show --stat produces outcome c.
StatsOf(commit_hash, c) ==
    LET known == {i \in 1..Len(World) : World[i].hash = commit_hash}
    IN  IF known = {}
        THEN get_commit_diff_stats(commit_hash, git_show_stat(World, commit_hash, c))
        ELSE DiffStatsOf[CHOOSE i \in known : TRUE, repo[CHOOSE i \in known : TRUE], c]

ShowCall(commit_hash, c) == [cmd |-> "show", hash |-> commit_hash, outcome |-> c]

AuthorCall(commit_hash, outcome) ==
    [cmd |-> "author", hash |-> commit_hash, outcome |-> outcome]

\* Line 40, when an exception leaves get_commit_diff_stats: find_commits and
\* main do not catch it either; added and deleted are not assigned.
IterStatsRaises ==
    /\ AtCandidate
    /\ \E c \in ShowCases :
          LET commit_hash == commits[idx][1]
              st == StatsOf(commit_hash, c)
          IN  /\ st.raised # "none"
              /\ uncaught' = st.raised
              /\ stdout' = stdout \o st.printed
              /\ calls' = Append(calls, ShowCall(commit_hash, c))
    /\ pc' = "raised"
    /\ UNCHANGED <<min_lines, min_pct, repo, commits, idx, added, deleted>>

\* A commit below a threshold: nothing more happens to it.
IterDiscard ==
    /\ AtCandidate
    /\ \E c \in ShowCases :
          LET commit_hash == commits[idx][1]
              st == StatsOf(commit_hash, c)
          IN  /\ st.raised = "none"
              /\ ~is_red(st.ret[1], st.ret[2], min_lines, min_pct)
              /\ added' = st.ret[1]
              /\ deleted' = st.ret[2]
              /\ stdout' = stdout \o st.printed
              /\ calls' = Append(calls, ShowCall(commit_hash, c))
    /\ idx' = idx + 1
    /\ UNCHANGED <<pc, uncaught, min_lines, min_pct, repo, commits>>

\* A red commit whose author lookup succeeds: its line is printed.
IterEmit ==
    /\ AtCandidate
    /\ \E c \in ShowCases :
          LET commit_hash == commits[idx][1]
              st == StatsOf(commit_hash, c)
              commit_author == strip(git_author(World, commit_hash, "ok").out)
          IN  /\ st.raised = "none"
              /\ is_red(st.ret[1], st.ret[2], min_lines, min_pct)
              /\ added' = st.ret[1]
              /\ deleted' = st.ret[2]
              /\ stdout' = print(stdout \o st.printed,
                                 commit_line(commit_hash, st.ret[1], st.ret[2],
                                             commit_author))
              /\ calls' = calls \o <<ShowCall(commit_hash, c),
                                     AuthorCall(commit_hash, "ok")>>
    /\ idx' = idx + 1
    /\ UNCHANGED <<pc, uncaught, min_lines, min_pct, repo, commits>>

\* A red commit whose author lookup fails: check_output raises, and
\* find_commits and main do not catch the exception.
IterAuthorError ==
    /\ AtCandidate
    /\ \E c \in ShowCases, a \in AuthorOutcomes :
          LET commit_hash == commits[idx][1]
              st == StatsOf(commit_hash, c)
              r == git_author(World, commit_hash, a)
          IN  /\ st.raised = "none"
              /\ is_red(st.ret[1], st.ret[2], min_lines, min_pct)
              /\ r.exc # "none"
              /\ uncaught' = r.exc
              /\ added' = st.ret[1]
              /\ deleted' = st.ret[2]
              /\ stdout' = stdout \o st.printed
              /\ calls' = calls \o <<ShowCall(commit_hash, c),
                                     AuthorCall(commit_hash, a)>>
    /\ pc' = "raised"
    /\ UNCHANGED <<min_lines, min_pct, repo, commits, idx>>

\* The loop is over: find_commits and main return.
LoopEnd ==
    /\ pc = "loop"
    /\ idx > Len(commits)
    /\ pc' = "done"
    /\ UNCHANGED <<uncaught, min_lines, min_pct, repo, commits, idx, added, deleted, stdout, calls>>

Next ==
    \/ Main
    \/ GetGitLog
    \/ GetGitLogRaises
    \/ IterUnpackError
    \/ IterSkipMerge
    \/ IterStatsRaises
    \/ IterDiscard
    \/ IterEmit
    \/ IterAuthorError
    \/ LoopEnd

Spec == Init /\ [][Next]_vars


\* ------------------------------------------------- reading a run's history
\* The shapes of the printed lines: the banner has 3 pieces, get_git_log's
\* diagnostic 2, get_commit_diff_stats's diagnostic 4, a commit's line 9.
IsCommitLine(l) == Len(l) = 9 /\ l[2] = " | " /\ l[8] = "% | "
IsStatsDiag(l) == Len(l) = 4 /\ l[1] = "Error retrieving diff stats for commit "
IsLogDiag(l) == Len(l) = 2 /\ l[1] = "Error retrieving git log: "

\* The hash as displayed.
Hash8(h) == SubSeq(h, 1, 8)

\* The commit lines printed so far, in order, and the hashes they show.
CommitLines == SelectSeq(stdout, IsCommitLine)
EmittedHashes == [k \in 1..Len(CommitLines) |-> CommitLines[k][1]]

\* Whether a line has been printed for the commit with hash h.
LinePrintedFor(h) == \E k \in 1..Len(CommitLines) : CommitLines[k][1] = Hash8(h)

\* How often get_commit_diff_stats's diagnostic has been printed for h.
StatsDiagsFor(h) ==
    Cardinality({k \in 1..Len(stdout) : IsStatsDiag(stdout[k]) /\ stdout[k][2] = Hash8(h)})

\* The positions in calls of the git show --stat calls, and of those for h.
ShowCallsAt == {k \in 1..Len(calls) : calls[k].cmd = "show"}
ShowCallsFor(h) == {k \in ShowCallsAt : calls[k].hash = h}

\* The git log call has been made.
LogCalled == calls # <<>>

\* get_git_log has returned and the loop has its commits.
LogReturned == idx >= 1

\* The run is over, normally or with a traceback.
RunOver == pc \in {"done", "raised"}

\* The latest git show --stat call: the one added and deleted come from.
HasShown == ShowCallsAt # {}
LastShowAt == CHOOSE k \in ShowCallsAt : \A j \in ShowCallsAt : j <= k
LastShow == calls[LastShowAt]

\* The latest candidate's evaluation ran to its end: get_commit_diff_stats
\* returned and the author lookup, if there was one, did not fail.
LastEvaluated ==
    /\ HasShown
    /\ LastShow.outcome # "os_error"
    /\ \A k \in (LastShowAt + 1)..Len(calls) : calls[k].outcome = "ok"

\* The outcomes of git show --stat for which get_commit_diff_stats fails: the
\* command fails, its output cannot be decoded, it cannot be started, or a
\* matching line does not start with a number.
FailingShowCases == {"fatal", "undecodable", "os_error", "prose"}

\* A subject with the literal prefix "Merge branch".
HasMergePrefix(subject) ==
    /\ Len(subject) >= 12
    /\ SubSeq(subject, 1, 12) = <<"M", "e", "r", "g", "e", " ", "b", "r", "a", "n",
          "c", "h">>

\* deleted / total * 100 >= p in exact arithmetic; 0 >= p when total is 0.
ExactPercentAtLeast(d, total, p) ==
    IF total > 0 THEN d * 100 >= p * total ELSE 0 >= p

RECURSIVE IsSubsequence(_, _)
IsSubsequence(xs, ys) ==
    IF xs = <<>> THEN TRUE
    ELSE IF ys = <<>> THEN FALSE
    ELSE IF Head(xs) = Head(ys) THEN IsSubsequence(Tail(xs), Tail(ys))
    ELSE IsSubsequence(xs, Tail(ys))

\* ------------------------------------------------------------------ claims

\* C1: a candidate whose evaluation ran to its end has a line printed if and
\* only if added + deleted >= min_lines and deleted / total * 100 >= min_pct
\* (0 when total is 0), equality qualifying on both bounds.
C1_IncludedIffThresholds ==
    LastEvaluated =>
        (LinePrintedFor(LastShow.hash)
            <=> /\ added + deleted >= min_lines
                /\ ExactPercentAtLeast(deleted, added + deleted, min_pct))

\* C2: for a commit of the window whose subject starts with "Merge branch" no
\* git show --stat and no author lookup is ever run and no line is printed.
C2_MergeNeverProcessed ==
    \A i \in 1..Len(repo) :
        HasMergePrefix(repo[i]) =>
            /\ \A k \in 1..Len(calls) : calls[k].hash # Hash(i)
            /\ ~LinePrintedFor(Hash(i))

\* A run that is over, whose newest commit is a merge commit and whose second
\* commit, with the same thresholds, had its line printed.
C2_Witness ==
    /\ pc = "done"
    /\ Len(repo) >= 2
    /\ HasMergePrefix(repo[1])
    /\ idx > Len(commits)
    /\ LinePrintedFor(Hash(2))

\* C3: no failure of a git command run for a commit ends the run: the run
\* never stops on the exception of a failed git show --stat or author lookup.
C3_NoFailureAborts ==
    ~(/\ pc = "raised"
      /\ calls # <<>>
      /\ calls[Len(calls)].cmd \in {"show", "author"}
      /\ calls[Len(calls)].outcome # "ok")

\* C4: when the change summary is read without error, added is the number of
\* inserted lines and deleted the number of deleted lines that the summary
\* lines report (0 for a missing part), summed over the summary lines.  (The
\* singular forms are C9's.)
C4_StatsAreLineTotals ==
    LET p == ShowParams(LastShow.outcome)
        q == p.quoted
    IN  (/\ HasShown
         /\ LastShow.outcome \notin FailingShowCases
         /\ p.I # 1 /\ p.D # 1)
        => /\ added = p.I + sum([k \in 1..Len(q) |-> q[k].I])
           /\ deleted = p.D + sum([k \in 1..Len(q) |-> q[k].D])

\* C5: the hashes of the printed commit lines are a subsequence of the hashes
\* of the records get_git_log returned: the same order, none twice, none that
\* is not in the input.
C5_OutputOrder ==
    LogReturned =>
        /\ IsSubsequence(EmittedHashes,
                         [i \in 1..Len(commits) |-> Hash8(commits[i][1])])
        /\ \A j, k \in 1..Len(EmittedHashes) :
              EmittedHashes[j] = EmittedHashes[k] => j = k

\* A run that is over and has printed the lines of two commits.
C5_Witness == pc = "done" /\ Len(EmittedHashes) >= 2

\* C6: when git show --stat fails, or a count does not parse, for a commit:
\* one diagnostic with the 8-character hash is printed and the stats are
\* (0, 0); the commit has no line whenever min_lines > 0; and every commit
\* evaluated after it has a line exactly when its own stats meet the
\* thresholds, as in a run without the failure.
C6_StatsFailureRecovered ==
    \A k \in ShowCallsAt :
        calls[k].outcome \in FailingShowCases =>
            /\ StatsDiagsFor(calls[k].hash) = 1
            /\ (k = LastShowAt => added = 0 /\ deleted = 0)
            /\ (min_lines > 0 => ~LinePrintedFor(calls[k].hash))
            /\ \A j \in ShowCallsAt :
                  (/\ j > k
                   /\ \A n \in (j + 1)..Len(calls) :
                         calls[n].hash = calls[j].hash => calls[n].outcome = "ok")
                  => LET i == CHOOSE i \in 1..Len(repo) : Hash(i) = calls[j].hash
                         st == DiffStatsOf[i, repo[i], calls[j].outcome].ret
                     IN  LinePrintedFor(calls[j].hash)
                             <=> is_red(st[1], st[2], min_lines, min_pct)

\* C7: when the git log call fails, get_git_log prints one diagnostic and
\* returns the empty list; then, as for an empty window (which prints no
\* diagnostic), no other git command is run, no commit line is printed and the
\* run does not stop on an exception: only the end of the loop is left.
C7_LogFailureIsEmpty ==
    LogCalled =>
        /\ calls[1].outcome # "ok" =>
              /\ LogReturned
              /\ commits = <<>>
              /\ Len(stdout) = 2 /\ IsLogDiag(stdout[2])
        /\ (calls[1].outcome = "ok" /\ repo = <<>>) =>
              /\ commits = <<>>
              /\ Len(stdout) = 1
        /\ (calls[1].outcome # "ok" \/ repo = <<>>) =>
              /\ Len(calls) = 1
              /\ CommitLines = <<>>
              /\ pc # "raised"
              /\ idx > Len(commits)

\* C8: when the run is over, git show --stat has been run exactly once for
\* every record of commits that is a pair and no merge commit.
C8_StatsAttemptedOnce ==
    RunOver =>
        \A i \in 1..Len(commits) :
            (Len(commits[i]) = 2 /\ ~HasMergePrefix(commits[i][2]))
            => Cardinality(ShowCallsFor(commits[i][1])) = 1

\* C9: a summary line reporting exactly one insertion makes added positive,
\* and one reporting exactly one deletion makes deleted positive.
C9_SingularCounted ==
    HasShown =>
        /\ LastShow.outcome = "one_insertion" => added > 0
        /\ LastShow.outcome = "one_deletion" => deleted > 0

\* C10: whenever git log succeeds, get_git_log returns one record per commit
\* of the window and every record is a pair (hash, subject).
C10_RecordsArePairs ==
    (LogReturned /\ calls[1].outcome = "ok") =>
        /\ Len(commits) = Len(repo)
        /\ \A i \in 1..Len(commits) : Len(commits[i]) = 2

====
